---- MODULE Spec2Model ----
(***************************************************************************)
(* Model of the FileSplitter plugin (src/FileSplitter.tsx): the receive    *)
(* path (onMessageCreate -> ChunkManager.addChunk -> handleFileMerge), the *)
(* assembly cache ChunkManager.storage, its periodic garbage collection,   *)
(* the asynchronous merge tasks, and the send path of SplitFileComponent   *)
(* (handleFileSelect -> handleFileSplit -> FileUploadStore.upload).        *)
(*                                                                         *)
(* JavaScript is single threaded: every handler below runs to its next     *)
(* await as one atomic action.  handleFileMerge is an async function, so   *)
(* one merge is a task with a position; it suspends at every fetch.        *)
(***************************************************************************)
EXTENDS Integers, Sequences, FiniteSets, TLC

VARIABLES
    storage,               \* ChunkManager.storage: originalName -> [chunks, lastUpdated]
    now,                   \* the receiver's clock, Date.now() in ms
    merges,                \* the handleFileMerge calls made so far, in call order
    chunkCleanupInterval,  \* plugin.chunkCleanupInterval: TRUE while the timer is installed
    subscribed,            \* TRUE while onMessageCreate is subscribed to MESSAGE_CREATE
    uncaught,              \* TRUE once an error has left onMessageCreate uncaught
    sender,                \* the handleFileSplit call in progress: its file, i, totalChunks
    isUploading,           \* SplitFileComponent state
    status,                \* SplitFileComponent state
    progress,              \* SplitFileComponent state
    inflight,              \* the FileUploadStore.upload calls that have not settled
    channel,               \* the messages the uploads have posted, in order
    cdn                    \* attachment URL -> the bytes uploaded under it

recvVars == <<storage, now, merges, chunkCleanupInterval, subscribed, uncaught>>

sendVars == <<sender, isUploading, status, progress, inflight, channel, cdn>>

vars == <<recvVars, sendVars>>

----------------------------------------------------------------------------
(* Program constants *)

CHUNK_SIZE == 25690112

CHUNK_TIMEOUT == 300000

\* the size above which handleFileSelect refuses a file
MaxObjectSize == 500 * 1024 * 1024

ChunkType == "FileSplitterChunk"

----------------------------------------------------------------------------
(* Bounds of the model *)

\* at most this many handleFileMerge calls are made in one run
MaxMerges == 2

\* at most this many upload sequences post a chunk in one run
MaxSends == 2

\* the round trip is followed for files of at most this many chunks
MaxRoundTripChunks == 3

\* The files that senders split and upload.  f1 and f2 are two unrelated
\* files that carry the same name; the attachment of part i of file f has
\* the CDN URL <<f, i>>.
Files == {"f1", "f2", "f3"}

FileName(f) == IF f = "f3" THEN "b" ELSE "a"

FileTotal(f) == IF f = "f1" THEN 3 ELSE 2

FileSize(f) == IF f = "f1" THEN 25 ELSE 15

\* The indices of the parts of file f that reach the receiver: every part of
\* f1; every part of f2 and one more whose index is not below the total; of
\* f3 the first part only (its upload was abandoned after one part).
FileIndices(f) ==
    IF f = "f1" THEN 0..(FileTotal(f) - 1)
    ELSE IF f = "f2" THEN 0..FileTotal(f)
    ELSE {0}

Names == {FileName(f) : f \in Files}

Timestamps == {7}

\* The readings of the receiver's clock at which messages arrive: two
\* successive milliseconds.
DeliverInstants == {0, 1}

\* The readings the clock takes: those, and the three around the expiry of
\* what was stored at them (an entry refreshed at 0 is CHUNK_TIMEOUT old at
\* the first and expired at the second, one refreshed at 1 at the third).
Instants ==
    DeliverInstants \cup {CHUNK_TIMEOUT, CHUNK_TIMEOUT + 1, CHUNK_TIMEOUT + 2}

----------------------------------------------------------------------------
(* JSON values: a value is a pair of its kind and its content *)

Num(n) == <<"number", n>>

Str(s) == <<"string", s>>

Obj(fields) == <<"object", fields>>

Undefined == <<"undefined", 0>>

JsonNull == <<"null", 0>>

\* typeof v; typeof null is 'object'
TypeOf(v) == IF v[1] = "null" THEN "object" ELSE v[1]

ValueOf(v) == v[2]

\* v.type and the like throw a TypeError when v is null
ThrowsOnAccess(v) == v[1] = "null"

\* JSON.stringify(metadata) of a well-formed FileChunkMetadata, parsed
ChunkObject(i, t, n, sz, ts) ==
    Obj([type |-> Str(ChunkType), index |-> Num(i), total |-> Num(t),
         originalName |-> Str(n), originalSize |-> Num(sz),
         timestamp |-> Num(ts)])

\* message.content: "" (empty), text that is not JSON, or JSON text
NoContent == [kind |-> "empty"]

NotJson == [kind |-> "text"]

Json(obj) == [kind |-> "json", value |-> obj]

Message(content, attachments) == [content |-> content, attachments |-> attachments]

Attachment(url) == [url |-> url]

NoUrl == <<"", -1>>

\* The message that carries part i of file f: the metadata handleFileSplit
\* writes for it, and the part as the attachment.
ChunkMessage(f, i, ts) ==
    Message(Json(ChunkObject(i, FileTotal(f), FileName(f), FileSize(f), ts)),
            <<Attachment(<<f, i>>)>>)

ChunkMessages ==
    UNION {{ChunkMessage(f, i, ts) : i \in FileIndices(f), ts \in Timestamps} :
              f \in Files}

\* Messages that are not chunk messages, one for every check of
\* onMessageCreate and isValidChunk.
OtherMessages ==
    LET good == ValueOf(ChunkObject(0, 2, "a", 25, 7))
        att  == <<Attachment(<<"f1", 0>>)>>
    IN  { Message(NoContent, att),
          Message(NotJson, att),
          Message(Json(ChunkObject(0, 2, "a", 25, 7)), <<>>),
          Message(Json(ChunkObject(0, 2, "a", 25, 7)), <<Attachment(NoUrl)>>),
          Message(Json(JsonNull), att),
          Message(Json(Num(5)), att),
          Message(Json(Obj([good EXCEPT !.type = Str("SomethingElse")])), att),
          Message(Json(Obj([good EXCEPT !.type = Undefined])), att),
          Message(Json(Obj([good EXCEPT !.index = Str("0")])), att),
          Message(Json(Obj([good EXCEPT !.total = Undefined])), att),
          Message(Json(Obj([good EXCEPT !.originalName = Num(1)])), att),
          Message(Json(Obj([good EXCEPT !.originalSize = Undefined])), att),
          Message(Json(Obj([good EXCEPT !.timestamp = Str("7")])), att) }

----------------------------------------------------------------------------
(* ChunkManager *)

HasIndex(chunks, index) == \E p \in 1..Len(chunks) : chunks[p].index = index

\* addChunk without the idempotency check
addChunkAlways(st, chunk, t) ==
    LET key == chunk.originalName
        st1 == IF key \notin DOMAIN st
               THEN st @@ (key :> [chunks |-> <<>>, lastUpdated |-> t])
               ELSE st
    IN  [st1 EXCEPT ![key] = [chunks |-> Append(@.chunks, chunk),
                              lastUpdated |-> t]]

\* addChunk refreshing the lastUpdated of every entry of the cache
addChunkRefreshingAll(st, chunk, t) ==
    LET key == chunk.originalName
        st1 == IF key \notin DOMAIN st
               THEN st @@ (key :> [chunks |-> <<>>, lastUpdated |-> t])
               ELSE st
    IN  IF ~HasIndex(st1[key].chunks, chunk.index)
        THEN [k \in DOMAIN st1 |->
                 [chunks |-> IF k = key THEN Append(st1[k].chunks, chunk)
                                        ELSE st1[k].chunks,
                  lastUpdated |-> t]]
        ELSE st1

\* addChunk refreshing lastUpdated on every call
addChunkTouching(st, chunk, t) ==
    LET key == chunk.originalName
        st1 == IF key \notin DOMAIN st
               THEN st @@ (key :> [chunks |-> <<>>, lastUpdated |-> t])
               ELSE st
    IN  IF ~HasIndex(st1[key].chunks, chunk.index)
        THEN [st1 EXCEPT ![key] = [chunks |-> Append(@.chunks, chunk),
                                   lastUpdated |-> t]]
        ELSE [st1 EXCEPT ![key].lastUpdated = t]

addChunk(st, chunk, t) ==
    LET key == chunk.originalName
        st1 == IF key \notin DOMAIN st
               THEN st @@ (key :> [chunks |-> <<>>, lastUpdated |-> t])
               ELSE st
    IN  IF ~HasIndex(st1[key].chunks, chunk.index)
        THEN [st1 EXCEPT ![key] = [chunks |-> Append(@.chunks, chunk),
                                   lastUpdated |-> t]]
        ELSE st1

\* null is [found |-> FALSE]
getChunks(st, fileName) ==
    IF fileName \in DOMAIN st
    THEN [found |-> TRUE, chunks |-> st[fileName].chunks]
    ELSE [found |-> FALSE, chunks |-> <<>>]

\* the expiry test one millisecond late
ExpiredLate(entry, t) == t - entry.lastUpdated > CHUNK_TIMEOUT + 1

\* the expiry test with its operands exchanged
ExpiredNever(entry, t) == entry.lastUpdated - t > CHUNK_TIMEOUT

Expired(entry, t) == t - entry.lastUpdated > CHUNK_TIMEOUT

cleanOldChunks(st, t) ==
    LET keep == {key \in DOMAIN st : ~Expired(st[key], t)}
    IN  [key \in keep |-> st[key]]

----------------------------------------------------------------------------
(* isValidChunk *)

\* the validation without the comparison of the discriminator
isValidChunkAnyType(chunk) ==
    /\ TypeOf(chunk) = "object"
    /\ TypeOf(ValueOf(chunk).type) = "string"
    /\ TypeOf(ValueOf(chunk).index) = "number"
    /\ TypeOf(ValueOf(chunk).total) = "number"
    /\ TypeOf(ValueOf(chunk).originalName) = "string"
    /\ TypeOf(ValueOf(chunk).originalSize) = "number"
    /\ TypeOf(ValueOf(chunk).timestamp) = "number"

isValidChunk(chunk) ==
    /\ TypeOf(chunk) = "object"
    /\ TypeOf(ValueOf(chunk).type) = "string"
    /\ ValueOf(ValueOf(chunk).type) = ChunkType
    /\ TypeOf(ValueOf(chunk).index) = "number"
    /\ TypeOf(ValueOf(chunk).total) = "number"
    /\ TypeOf(ValueOf(chunk).originalName) = "string"
    /\ TypeOf(ValueOf(chunk).originalSize) = "number"
    /\ TypeOf(ValueOf(chunk).timestamp) = "number"

\* { ...chunkData, url: attachment.url }
StoredChunk(chunkData, url) ==
    LET fields == ValueOf(chunkData)
    IN  [type |-> ValueOf(fields.type), index |-> ValueOf(fields.index),
         total |-> ValueOf(fields.total),
         originalName |-> ValueOf(fields.originalName),
         originalSize |-> ValueOf(fields.originalSize),
         timestamp |-> ValueOf(fields.timestamp), url |-> url]

----------------------------------------------------------------------------
(* handleFileMerge *)

\* no record: the task stands on nothing once it has ended
NoChunk ==
    [type |-> "", index |-> -1, total |-> -1, originalName |-> "",
     originalSize |-> -1, timestamp |-> -1, url |-> NoUrl]

RECURSIVE InsertByIndex(_, _)
InsertByIndex(sorted, c) ==
    IF sorted = <<>> THEN <<c>>
    ELSE IF c.index - Head(sorted).index < 0 THEN <<c>> \o sorted
    ELSE <<Head(sorted)>> \o InsertByIndex(Tail(sorted), c)

\* no sort: the array is iterated in the order of arrival
SortChunksNot(chunks) == chunks

RECURSIVE SortChunks(_)
\* chunks.sort((a, b) => a.index - b.index), a stable sort
SortChunks(chunks) ==
    IF chunks = <<>> THEN <<>>
    ELSE InsertByIndex(SortChunks(SubSeq(chunks, 1, Len(chunks) - 1)),
                       chunks[Len(chunks)])

\* The array a merge task iterates.  The task holds a reference to the array
\* object: while that array is still the one in storage[key] (attached) the
\* task sees every push and sort made on it; once the entry is deleted the
\* task is the only holder and the array is kept in the task (own).
MergeArray(st, m) == IF m.attached THEN st[m.key].chunks ELSE m.own

\* The task created by a call handleFileMerge(chunks) up to its first await:
\* the array is sorted (in place: the caller's array is the same object),
\* the iterator stands on chunks[0], fetch(chunks[0].url) is in flight.
\* key names the entry whose array was passed.
handleFileMerge(key, chunks) ==
    LET sorted == SortChunks(chunks)
    IN  [key |-> key, attached |-> TRUE, own |-> <<>>, total |-> Len(sorted),
         idx |-> 1, cur |-> sorted[1], parts |-> <<>>, pc |-> "fetch",
         name |-> ""]

\* When storage[key] is deleted, the tasks that hold its array keep it alive.
Detach(ms, st, gone) ==
    [i \in 1..Len(ms) |->
        IF ms[i].attached /\ ms[i].key \in gone
        THEN [ms[i] EXCEPT !.attached = FALSE,
                           !.own = IF ms[i].pc = "fetch"
                                   THEN st[ms[i].key].chunks ELSE <<>>]
        ELSE ms[i]]

----------------------------------------------------------------------------
(* Files and blobs of the send path *)

File(id, name, size) == [id |-> id, name |-> name, size |-> size]

\* The files the user can select: sizes on both sides of the two limits of
\* handleFileSelect, and sizes that split into two, three and four chunks.
SelectableFiles ==
    { File("g0", "a", 0),
      File("g1", "a", 1),
      File("g2", "a", CHUNK_SIZE),
      File("g3", "a", CHUNK_SIZE + 1),
      File("g4", "b", 2 * CHUNK_SIZE),
      File("g5", "b", 2 * CHUNK_SIZE + 1),
      File("g6", "a", MaxObjectSize),
      File("g7", "a", MaxObjectSize + 1),
      File("g8", "b", 3 * CHUNK_SIZE + 1) }

\* e.target.files is empty
NoFile == File("", "", -1)

Min(a, b) == IF a < b THEN a ELSE b

\* Math.ceil(a / b), a >= 0 and b > 0
Ceil(a, b) == (a + b - 1) \div b

\* Math.round(a / b), a >= 0 and b > 0
Round(a, b) == (2 * a + b) \div (2 * b)

\* A Blob is a sequence of byte ranges: <<id, lo, hi>> stands for the bytes
\* lo .. hi-1 of the file id.  In a Blob no range is empty and no range
\* continues the one before it, so two Blobs hold the same bytes exactly
\* when they are equal.
Continues(r, q) == r[1] = q[1] /\ r[2] = q[3]

RECURSIVE BlobConcat(_)
\* new Blob(blobParts)
BlobConcat(blobParts) ==
    IF blobParts = <<>> THEN <<>>
    ELSE LET front == BlobConcat(SubSeq(blobParts, 1, Len(blobParts) - 1))
             last  == blobParts[Len(blobParts)]
         IN  IF last = <<>> THEN front
             ELSE IF front # <<>> /\ Continues(last[1], front[Len(front)])
             THEN SubSeq(front, 1, Len(front) - 1)
                     \o << <<last[1][1], front[Len(front)][2], last[1][3]>> >>
                     \o Tail(last)
             ELSE front \o last

RECURSIVE BlobSize(_)
BlobSize(blob) ==
    IF blob = <<>> THEN 0
    ELSE (blob[1][3] - blob[1][2]) + BlobSize(Tail(blob))

\* the bytes of the whole file
FileBlob(file) == IF file.size > 0 THEN << <<file.id, 0, file.size>> >> ELSE <<>>

\* file.slice(start, end), 0 <= start: both ends are clamped to the size
slice(file, start, end) ==
    LET lo == Min(start, file.size)
        hi == Min(end, file.size)
    IN  IF lo < hi THEN << <<file.id, lo, hi>> >> ELSE <<>>

----------------------------------------------------------------------------
(* SplitFileComponent: handleFileSplit, the values it computes *)

\* no handleFileSplit call is in progress
Idle == [pc |-> "idle", file |-> NoFile, i |-> 0, totalChunks |-> 0]

\* the values of status
NoStatus == <<"">>

TooBig == <<"File exceeds 500MB. This is not supported.">>

Small == <<"File is small enough to be sent directly.">>

Splitting(file) == <<"Splitting", file.name, Ceil(file.size, CHUNK_SIZE)>>

Success(file, totalChunks) == <<"Successfully uploaded", totalChunks, file.name>>

Failure == <<"Error">>

\* file.size > CHUNK_SIZE, with >= in place of >
NeedsSplitFrom(size) == size >= CHUNK_SIZE

\* file.size > CHUNK_SIZE
NeedsSplit(size) == size > CHUNK_SIZE

\* the count rounded down
TotalChunksFloor(size) == size \div CHUNK_SIZE

\* Math.ceil(file.size / CHUNK_SIZE)
TotalChunks(size) == Ceil(size, CHUNK_SIZE)

\* a start that skips the first byte of every chunk but the first
SliceStartSkipping(i) == IF i = 0 THEN 0 ELSE i * CHUNK_SIZE + 1

\* const start = i * CHUNK_SIZE
SliceStart(i) == i * CHUNK_SIZE

\* const end = Math.min(start + CHUNK_SIZE, file.size)
SliceEnd(start, size) == Min(start + CHUNK_SIZE, size)

\* const metadata: FileChunkMetadata = {...}
Metadata(file, i, totalChunks, ts) ==
    [type |-> ChunkType, index |-> i, total |-> totalChunks,
     originalName |-> file.name, originalSize |-> file.size, timestamp |-> ts]

\* JSON.stringify(metadata): every field is written with its JSON type
stringify(metadata) ==
    Json(Obj([type |-> Str(metadata.type), index |-> Num(metadata.index),
              total |-> Num(metadata.total),
              originalName |-> Str(metadata.originalName),
              originalSize |-> Num(metadata.originalSize),
              timestamp |-> Num(metadata.timestamp)]))

\* The argument of FileUploadStore.upload for chunk i: the part as a File
\* named `${file.name}.part${i + 1}` and the metadata as the message.
UploadRequest(file, i, totalChunks, ts) ==
    LET start     == SliceStart(i)
        end       == SliceEnd(start, file.size)
        chunkBlob == slice(file, start, end)
    IN  [index   |-> i,
         file    |-> [name |-> <<file.name, "part", i + 1>>, blob |-> chunkBlob],
         message |-> stringify(Metadata(file, i, totalChunks, ts))]

\* every remaining upload started at once, none awaited
UploadsStartedAll(i, totalChunks) == i..(totalChunks - 1)

\* The uploads one pass of the loop body starts before it suspends: the
\* upload of chunk i, which is awaited.
UploadsStarted(i, totalChunks) == {i}

\* a loop that goes on to the next chunk after a failed upload
NextStepContinuing(ok, i, totalChunks) ==
    IF i + 1 < totalChunks THEN "next" ELSE "done"

\* Where handleFileSplit goes when the awaited upload of chunk i settles: a
\* rejection leaves the loop for the catch clause, a fulfilment goes to
\* chunk i+1 or, after the last chunk, leaves the loop.
NextStep(ok, i, totalChunks) ==
    IF ~ok THEN "failed"
    ELSE IF i + 1 < totalChunks THEN "next" ELSE "done"

\* the CDN URL of the attachment of the message that carries part i
AttachmentUrl(file, i) == <<file.id, i>>

----------------------------------------------------------------------------
(* The state after the module is loaded: an empty cache, plugin not started *)

Init ==
    /\ storage = <<>>
    /\ now = 0
    /\ merges = <<>>
    /\ chunkCleanupInterval = FALSE
    /\ subscribed = FALSE
    /\ uncaught = FALSE
    /\ sender = Idle
    /\ isUploading = FALSE
    /\ status = NoStatus
    /\ progress = 0
    /\ inflight = {}
    /\ channel = <<>>
    /\ cdn = <<>>

\* start(): install the cleanup timer and subscribe the handler
start ==
    /\ ~subscribed
    /\ chunkCleanupInterval' = TRUE
    /\ subscribed' = TRUE
    /\ UNCHANGED <<storage, now, merges, uncaught>>
    /\ UNCHANGED sendVars

\* Time passes.
Tick ==
    /\ \E t \in Instants : t > now /\ now' = t
    /\ UNCHANGED <<storage, merges, chunkCleanupInterval, subscribed, uncaught>>
    /\ UNCHANGED sendVars

\* the completion test one chunk early
IsCompleteEarly(got, total) == got.found /\ Len(got.chunks) >= total - 1

\* chunks && chunks.length === chunkData.total
IsComplete(got, total) == got.found /\ Len(got.chunks) = total

\* onMessageCreate({ message }) for a message that passes every check:
\* addChunk, getChunks, and handleFileMerge up to its first await.
StoreAndCheck(chunkData, url) ==
    LET storedChunk == StoredChunk(chunkData, url)
        key == storedChunk.originalName
        st1 == addChunk(storage, storedChunk, now)
        got == getChunks(st1, key)
    IN  IF IsComplete(got, storedChunk.total)
        THEN /\ Len(merges) < MaxMerges
             /\ storage' = [st1 EXCEPT ![key].chunks = SortChunks(got.chunks)]
             /\ merges' = Append(merges, handleFileMerge(key, got.chunks))
        ELSE /\ storage' = st1
             /\ merges' = merges

\* the parse or the validation of this message throws
Throws(message) ==
    /\ message.content.kind # "empty" /\ Len(message.attachments) # 0
    /\ \/ message.content.kind # "json"
       \/ ThrowsOnAccess(message.content.value)

\* try { ... } catch (e) { } encloses the whole body of onMessageCreate and
\* its catch clause rethrows nothing
Caught == TRUE

onMessageCreate(message) ==
    /\ subscribed
    /\ now \in DeliverInstants
    /\ IF message.content.kind = "empty" \/ Len(message.attachments) = 0
       THEN UNCHANGED <<storage, merges>>
       ELSE IF message.content.kind # "json"
       THEN UNCHANGED <<storage, merges>>      \* JSON.parse throws, caught
       ELSE IF ThrowsOnAccess(message.content.value)
       THEN UNCHANGED <<storage, merges>>      \* isValidChunk throws, caught
       ELSE IF ~isValidChunk(message.content.value)
       THEN UNCHANGED <<storage, merges>>
       ELSE IF message.attachments[1].url = NoUrl
       THEN UNCHANGED <<storage, merges>>
       ELSE StoreAndCheck(message.content.value, message.attachments[1].url)
    /\ uncaught' = (uncaught \/ (Throws(message) /\ ~Caught))
    /\ UNCHANGED <<now, chunkCleanupInterval, subscribed>>
    /\ UNCHANGED sendVars

DeliverChunk == \E message \in ChunkMessages : onMessageCreate(message)

DeliverOther == \E message \in OtherMessages : onMessageCreate(message)

\* The setInterval callback of start(): ChunkManager.cleanOldChunks().  The
\* timer is periodic (60000 ms) and the event loop may delay it, so the
\* callback may run at any reading of the clock while the timer is installed.
CleanupTimer ==
    /\ chunkCleanupInterval
    /\ storage' = cleanOldChunks(storage, now)
    /\ merges' = Detach(merges, storage, DOMAIN storage \ DOMAIN storage')
    /\ UNCHANGED <<now, chunkCleanupInterval, subscribed, uncaught>>
    /\ UNCHANGED sendVars

\* a loop that drops the part whose fetch failed and goes on
AfterFetchSkipping(ok, idx, len) ==
    IF idx + 1 <= len THEN "next" ELSE "done"

\* Where handleFileMerge goes when the fetch of the record at position idx
\* of an array of len records settles: a rejection, a response that is not
\* ok or a body that cannot be read throws and leaves the loop for the catch
\* clause; otherwise the iterator moves to the next record or, past the
\* last, the loop ends.
AfterFetch(ok, idx, len) ==
    IF ~ok THEN "failed"
    ELSE IF idx + 1 <= len THEN "next" ELSE "done"

\* handleFileMerge resumes after `await fetch(chunk.url)` / `await response.blob()`
\* of the record it stands on.
FetchResolved(i, ok) ==
    /\ i \in 1..Len(merges)
    /\ merges[i].pc = "fetch"
    /\ LET m        == merges[i]
           arr      == MergeArray(storage, m)
           step     == AfterFetch(ok, m.idx, Len(arr))
           \* blobParts.push(blob) is reached only with a body
           blobParts == IF ok THEN Append(m.parts, m.cur.url) ELSE m.parts
       IN  IF step = "failed"
           \* the throw unwinds to the catch: blobParts is dropped, nothing
           \* is downloaded
           THEN merges' = [merges EXCEPT ![i].pc = "failed", ![i].idx = 0,
                                         ![i].cur = NoChunk, ![i].parts = <<>>,
                                         ![i].own = <<>>]
           ELSE IF step = "next"
           THEN merges' = [merges EXCEPT ![i].parts = blobParts,
                                         ![i].idx = m.idx + 1,
                                         ![i].cur = arr[m.idx + 1]]
           \* the loop ends: new File([new Blob(blobParts)], chunks[0].originalName)
           \* is downloaded
           ELSE merges' = [merges EXCEPT ![i].parts = blobParts,
                                         ![i].idx = 0,
                                         ![i].pc = "done",
                                         ![i].name = arr[1].originalName,
                                         ![i].cur = NoChunk,
                                         ![i].own = <<>>]
    /\ UNCHANGED <<storage, now, chunkCleanupInterval, subscribed, uncaught>>
    /\ UNCHANGED sendVars

MergeStep == \E i \in 1..Len(merges), ok \in BOOLEAN : FetchResolved(i, ok)

----------------------------------------------------------------------------
(* SplitFileComponent: the handlers *)

\* the index a channel message carries in its metadata
MessageIndex(message) == ValueOf(ValueOf(message.content.value).index)

\* the upload sequences that have posted their first chunk
Sends == {k \in 1..Len(channel) : MessageIndex(channel[k]) = 0}

\* The loop of handleFileSplit from the test of pass i to its await.  The
\* sender's clock gives the timestamp; it is not the receiver's clock.
LoopFrom(pending, file, i, totalChunks) ==
    /\ \E ts \in Timestamps :
          inflight' = pending \cup
              {UploadRequest(file, j, totalChunks, ts) :
                  j \in UploadsStarted(i, totalChunks)}
    /\ sender' = [pc |-> "upload", file |-> file, i |-> i,
                  totalChunks |-> totalChunks]

\* the end of handleFileSplit without setIsUploading(false)
FinishKeepingFlag(outcome) ==
    /\ sender' = Idle
    /\ status' = outcome
    /\ progress' = 0
    /\ UNCHANGED isUploading

\* the end of handleFileSplit: the status, then the finally clause
Finish(outcome) ==
    /\ sender' = Idle
    /\ status' = outcome
    /\ isUploading' = FALSE
    /\ progress' = 0

\* handleFileSplit(file) up to its first await
handleFileSplit(file) ==
    LET totalChunks == TotalChunks(file.size)
    IN  IF 0 < totalChunks
        THEN /\ Cardinality(Sends) < MaxSends
             /\ LoopFrom(inflight, file, 0, totalChunks)
             /\ isUploading' = TRUE
             /\ status' = Splitting(file)
             /\ UNCHANGED <<progress, channel, cdn>>
        ELSE /\ Finish(Success(file, totalChunks))
             /\ UNCHANGED <<inflight, channel, cdn>>

\* handleFileSelect(e), e.target.files[0] being file.  The component is
\* rendered once start() has patched the text area; the button that opens
\* the file dialog is disabled while isUploading.
handleFileSelect(file) ==
    /\ subscribed
    /\ ~isUploading
    /\ sender.pc = "idle"
    /\ IF file = NoFile
       THEN UNCHANGED sendVars
       ELSE IF file.size > MaxObjectSize
       THEN /\ status' = TooBig
            /\ UNCHANGED <<sender, isUploading, progress, inflight, channel, cdn>>
       ELSE IF NeedsSplit(file.size)
       THEN handleFileSplit(file)
       ELSE /\ status' = Small
            /\ UNCHANGED <<sender, isUploading, progress, inflight, channel, cdn>>
    /\ UNCHANGED recvVars

FileSelect == \E file \in SelectableFiles \cup {NoFile} : handleFileSelect(file)

\* handleFileSplit resumes when the upload it awaits settles.  A fulfilled
\* upload has posted its message on the channel, the part attached.
UploadSettled(u, ok) ==
    /\ u \in inflight
    /\ sender.pc = "upload"
    /\ u.index = sender.i
    /\ LET file        == sender.file
           i           == sender.i
           totalChunks == sender.totalChunks
           url         == AttachmentUrl(file, i)
           step        == NextStep(ok, i, totalChunks)
       IN  /\ IF ok
              THEN /\ channel' = Append(channel,
                                        Message(u.message, <<Attachment(url)>>))
                   /\ cdn' = (url :> u.file.blob) @@ cdn
              ELSE UNCHANGED <<channel, cdn>>
           /\ IF step = "next"
              THEN /\ LoopFrom(inflight \ {u}, file, i + 1, totalChunks)
                   /\ progress' = Round(100 * (i + 1), totalChunks)
                   /\ UNCHANGED <<isUploading, status>>
              ELSE /\ inflight' = inflight \ {u}
                   /\ Finish(IF step = "done" THEN Success(file, totalChunks)
                                              ELSE Failure)
    /\ UNCHANGED recvVars

UploadStep == \E u \in inflight, ok \in BOOLEAN : UploadSettled(u, ok)

Next ==
    \/ start
    \/ Tick
    \/ DeliverChunk
    \/ DeliverOther
    \/ CleanupTimer
    \/ MergeStep

Spec == Init /\ [][Next]_vars

LiveSpec == Spec /\ WF_vars(Tick) /\ WF_vars(CleanupTimer)

\* The send path alone: the user selects files, the uploads settle.
SendNext ==
    \/ start
    \/ FileSelect
    \/ UploadStep

SendSpec == Init /\ [][SendNext]_vars

\* every upload that handleFileSplit awaits is settled in the end, fulfilled
\* or rejected
LiveSendSpec == SendSpec /\ WF_vars(UploadStep)

\* One transfer from end to end: a file is selected and split, the messages
\* its uploads post are delivered to onMessageCreate in any order and any
\* number of times, the clock advances, the sweep runs, the merge runs.
RoundTripFiles ==
    {file \in SelectableFiles : TotalChunks(file.size) <= MaxRoundTripChunks}

RoundTripSelect ==
    /\ channel = <<>>
    /\ \E file \in RoundTripFiles : handleFileSelect(file)

DeliverSent == \E k \in 1..Len(channel) : onMessageCreate(channel[k])

RoundTripNext ==
    \/ start
    \/ Tick
    \/ RoundTripSelect
    \/ UploadStep
    \/ DeliverSent
    \/ CleanupTimer
    \/ MergeStep

RoundTripSpec == Init /\ [][RoundTripNext]_vars

----------------------------------------------------------------------------
(* Vocabulary of the properties *)

\* the chunk record onMessageCreate builds from a chunk message
RecordOf(message) ==
    StoredChunk(message.content.value, message.attachments[1].url)

IndexSet(chunks) == {chunks[p].index : p \in 1..Len(chunks)}

RecordSet(chunks) == {chunks[p] : p \in 1..Len(chunks)}

\* the file a record's attachment is a part of
FileOf(record) == record.url[1]

\* this step calls handleFileMerge
MergeStarted == Len(merges') = Len(merges) + 1

\* what every step of onMessageCreate that changes the state looks like: the
\* clock and the plugin stand still, and the cache changes or a merge is called
DeliveryStep ==
    /\ subscribed /\ now \in DeliverInstants
    /\ UNCHANGED <<now, chunkCleanupInterval, subscribed>>
    /\ (storage' # storage \/ Len(merges') # Len(merges))

\* every record of the array belongs to a transfer of T chunks: total T and
\* an index of 0..T-1
ConsistentWith(chunks, T) ==
    \A p \in 1..Len(chunks) : chunks[p].total = T /\ chunks[p].index \in 0..(T - 1)

----------------------------------------------------------------------------
(* C1 *)

\* C1: once all T chunks of an object are stored and a merge of that set has
\* been started, no second merge of the same set is ever started.  Two tasks
\* that are both attached to storage[key] iterate the same array; the array
\* only grows, so equal lengths at the call mean the same record set.
C1_MergeStartedOnce ==
    \A i, j \in 1..Len(merges) :
        (i < j /\ merges[i].key = merges[j].key
               /\ merges[i].attached /\ merges[j].attached)
            => merges[i].total # merges[j].total

----------------------------------------------------------------------------
(* C2 *)

\* C2: a delivery of a chunk of a T-chunk transfer into an entry that holds
\* only chunks of that transfer (total T, indices below T) starts a merge
\* exactly when, after it, every index of 0..T-1 is stored.
C2_MergeExactlyWhenComplete ==
    [][DeliveryStep => \A message \in ChunkMessages :
          LET record == RecordOf(message)
              key    == record.originalName
              T      == record.total
          IN  (onMessageCreate(message) /\ record.index \in 0..(T - 1)
                  /\ ConsistentWith(storage'[key].chunks, T))
              => (MergeStarted <=> IndexSet(storage'[key].chunks) = 0..(T - 1))]_vars

\* all three chunks of f1 are stored, and the merge of the three was started
C2_Witness ==
    \E i \in 1..Len(merges) :
        /\ merges[i].attached /\ merges[i].key = "a" /\ merges[i].total = 3
        /\ ConsistentWith(storage["a"].chunks, 3)
        /\ \A p \in 1..3 : FileOf(storage["a"].chunks[p]) = "f1"

----------------------------------------------------------------------------
(* C3 *)

NoIndexTwice ==
    \A key \in DOMAIN storage :
        \A p, q \in 1..Len(storage[key].chunks) :
            storage[key].chunks[p].index = storage[key].chunks[q].index => p = q

\* C3: no entry ever holds an index twice, and the delivery of a chunk whose
\* (originalName, index) is already stored leaves the entry with the same
\* records, the same count and the same lastUpdated.
C3_DuplicateIsNoOp ==
    /\ []NoIndexTwice
    /\ [][DeliveryStep => \A message \in ChunkMessages :
            LET record == RecordOf(message)
                key    == record.originalName
            IN  (onMessageCreate(message) /\ key \in DOMAIN storage
                    /\ HasIndex(storage[key].chunks, record.index))
                => /\ key \in DOMAIN storage'
                   /\ Len(storage'[key].chunks) = Len(storage[key].chunks)
                   /\ RecordSet(storage'[key].chunks) = RecordSet(storage[key].chunks)
                   /\ storage'[key].lastUpdated = storage[key].lastUpdated]_vars

\* a chunk was delivered again into a complete entry: the second merge of an
\* unchanged array can only come from a duplicate
C3_Witness ==
    /\ NoIndexTwice
    /\ \E i, j \in 1..Len(merges) :
          /\ i < j /\ merges[i].key = merges[j].key
          /\ merges[i].attached /\ merges[j].attached
          /\ merges[i].total = merges[j].total

----------------------------------------------------------------------------
(* C4 *)

\* C4: all records of one entry share the same total.
C4_OneTotalPerEntry ==
    \A key \in DOMAIN storage :
        \A p, q \in 1..Len(storage[key].chunks) :
            storage[key].chunks[p].total = storage[key].chunks[q].total

----------------------------------------------------------------------------
(* C5 *)

\* C5: once the merge of a complete entry has been attempted (it has ended,
\* in a download or in an error), the array it was called with is no longer
\* the entry of its key in the cache.
C5_EntryGoneAfterMerge ==
    \A i \in 1..Len(merges) :
        merges[i].pc \in {"done", "failed"} => ~merges[i].attached

----------------------------------------------------------------------------
(* C6 *)

\* C6: the number of records of an entry never exceeds the total carried by
\* its records.
C6_CountAtMostTotal ==
    \A key \in DOMAIN storage :
        \A p \in 1..Len(storage[key].chunks) :
            Len(storage[key].chunks) <= storage[key].chunks[p].total

----------------------------------------------------------------------------
(* C7 *)

\* C7: the parts of two unrelated files (f1 and f2 carry the same name) are
\* never stored in one entry and never concatenated into one download.
C7_TransfersNeverMixed ==
    /\ \A key \in DOMAIN storage :
          \A p, q \in 1..Len(storage[key].chunks) :
              FileOf(storage[key].chunks[p]) = FileOf(storage[key].chunks[q])
    /\ \A i \in 1..Len(merges) :
          \A p, q \in 1..Len(merges[i].parts) :
              merges[i].parts[p][1] = merges[i].parts[q][1]

----------------------------------------------------------------------------
(* C8 *)

\* C8: after a sweep at the clock reading now, every entry that was older
\* than CHUNK_TIMEOUT is gone and getChunks finds nothing under its key, and
\* no entry older than CHUNK_TIMEOUT remains.
C8_SweepRemovesExpired ==
    [][CleanupTimer =>
          /\ \A key \in DOMAIN storage :
                now - storage[key].lastUpdated > CHUNK_TIMEOUT
                    => key \notin DOMAIN storage' /\ ~getChunks(storage', key).found
          /\ \A key \in DOMAIN storage' :
                now' - storage'[key].lastUpdated <= CHUNK_TIMEOUT]_vars

\* a sweep has removed the entry of "a" while a merge was iterating its
\* array, and the clock is past the expiry of whatever the entry held
C8_Witness ==
    /\ now = CHUNK_TIMEOUT + 2
    /\ "a" \notin DOMAIN storage
    /\ \E i \in 1..Len(merges) : ~merges[i].attached /\ merges[i].key = "a"

----------------------------------------------------------------------------
(* C9 *)

\* an entry of key that was last refreshed at the clock reading t
EntryOf(key, t) == key \in DOMAIN storage /\ storage[key].lastUpdated = t

\* C9: with the cleanup timer firing fairly and time passing, no entry stays
\* in the cache forever without being refreshed: an entry last refreshed at
\* t is eventually refreshed again or removed.
C9_EntryEventuallyRemoved ==
    \A key \in Names : \A t \in DeliverInstants :
        EntryOf(key, t) ~> ~EntryOf(key, t)

\* the entry of "a" held a transfer that can no longer complete (a record of
\* total 3 among fewer than 3) and has been removed by the sweep; the merge
\* that was running on it still holds its array
C9_Witness ==
    /\ chunkCleanupInterval
    /\ Names \cap DOMAIN storage = {}
    /\ \E i \in 1..Len(merges) :
          /\ ~merges[i].attached /\ merges[i].pc = "fetch"
          /\ \E p \in 1..Len(merges[i].own) :
                merges[i].own[p].total > Len(merges[i].own)

----------------------------------------------------------------------------
(* C10 *)

\* the array holds exactly the indices 0..T-1, once each
ExactRange(chunks, T) == Len(chunks) = T /\ IndexSet(chunks) = 0..(T - 1)

\* C10: a merge over the chunks 0..T-1 of an object concatenates them in
\* ascending index order, whatever the order of their delivery: while it
\* runs on such an array, the part at position p is the attachment of the
\* record of index p-1 and the record it stands on has index idx-1; a
\* download made of T parts with the indices 0..T-1 has them in that order.
C10_MergeInIndexOrder ==
    \A i \in 1..Len(merges) :
        LET m == merges[i]
        IN  /\ (m.pc = "fetch" /\ ExactRange(MergeArray(storage, m), m.total))
                => /\ \A p \in 1..Len(m.parts) :
                         m.parts[p] = MergeArray(storage, m)[p].url
                   /\ \A p \in 1..Len(m.parts) : m.parts[p][2] = p - 1
                   /\ m.cur.index = m.idx - 1
                   /\ m.idx = Len(m.parts) + 1
            /\ (m.pc = "done" /\ Len(m.parts) = m.total
                    /\ {m.parts[p][2] : p \in 1..Len(m.parts)} = 0..(m.total - 1))
                => \A p \in 1..Len(m.parts) : m.parts[p][2] = p - 1

\* the three parts of f1 have been downloaded as one file
C10_Witness ==
    \E i \in 1..Len(merges) :
        /\ merges[i].pc = "done" /\ merges[i].total = 3
        /\ merges[i].parts = << <<"f1", 0>>, <<"f1", 1>>, <<"f1", 2>> >>

----------------------------------------------------------------------------
(* Vocabulary of the properties of the send path *)

\* the metadata a channel message carries, parsed
MetadataOf(content) ==
    LET fields == ValueOf(content.value)
    IN  [index |-> ValueOf(fields.index), total |-> ValueOf(fields.total),
         originalName |-> ValueOf(fields.originalName),
         originalSize |-> ValueOf(fields.originalSize)]

\* the selected file an attachment URL belongs to
FileOfUrl(url) == CHOOSE file \in SelectableFiles : file.id = url[1]

\* The bytes attached to the message that carries part i of the file f of
\* Files: its sender cut f into FileTotal(f) parts of equal length, the last
\* one shorter; a part past the end of the file is empty.
PartLength(f) == Ceil(FileSize(f), FileTotal(f))

PartBlob(f, i) ==
    slice(File(f, FileName(f), FileSize(f)),
          i * PartLength(f), (i + 1) * PartLength(f))

\* response.blob() of fetch(url): what was uploaded under the URL
Body(url) == IF url \in DOMAIN cdn THEN cdn[url] ELSE PartBlob(url[1], url[2])

\* what a finished merge has handed to the browser as one file:
\* new Blob(blobParts), every part being the body fetched from its URL
Downloaded(m) == BlobConcat([p \in 1..Len(m.parts) |-> Body(m.parts[p])])

\* the uploads made so far: those in flight, of the file being split, and
\* those that have posted a message
Uploads ==
    {[file |-> sender.file, content |-> u.message, blob |-> u.file.blob] :
        u \in inflight}
    \cup
    {[file |-> FileOfUrl(channel[k].attachments[1].url),
      content |-> channel[k].content,
      blob |-> cdn[channel[k].attachments[1].url]] : k \in 1..Len(channel)}

\* the last n messages of the channel
LastSent(n) == SubSeq(channel, Len(channel) - n + 1, Len(channel))

----------------------------------------------------------------------------
(* C11 *)

\* C11: every file that a merge produces from the chunks of one split
\* object, delivered in any order, has exactly the bytes of that object:
\* the same byte sequence, of length N, under the object's name.
C11_RoundTrip ==
    \A i \in 1..Len(merges) :
        merges[i].pc = "done"
            => LET file == FileOfUrl(merges[i].parts[1])
               IN  /\ Downloaded(merges[i]) = FileBlob(file)
                   /\ BlobSize(Downloaded(merges[i])) = file.size
                   /\ file.size >= 1
                   /\ merges[i].name = file.name

\* the three chunks of g5 were merged after the sweep had evicted the entry
\* they were stored in
C11_Witness ==
    \E i \in 1..Len(merges) :
        /\ merges[i].pc = "done" /\ ~merges[i].attached
        /\ Len(merges[i].parts) = 3
        /\ Downloaded(merges[i]) = << <<"g5", 0, 2 * CHUNK_SIZE + 1>> >>

----------------------------------------------------------------------------
(* C12 *)

\* C12: every chunk the splitter uploads for an object of N bytes carries
\* total = ceil(N / CHUNK_SIZE), originalSize = N and an index i below the
\* total, and is the byte range [i*CHUNK_SIZE, min((i+1)*CHUNK_SIZE, N)),
\* which is not empty and at most CHUNK_SIZE long; the chunks of a finished
\* sequence are pairwise disjoint and cover [0, N) exactly.
C12_SplitRanges ==
    /\ \A u \in Uploads :
          LET N    == u.file.size
              meta == MetadataOf(u.content)
              lo   == meta.index * CHUNK_SIZE
              hi   == Min((meta.index + 1) * CHUNK_SIZE, N)
          IN  /\ (meta.total - 1) * CHUNK_SIZE < N /\ N <= meta.total * CHUNK_SIZE
              /\ meta.index \in 0..(meta.total - 1)
              /\ meta.originalSize = N
              /\ meta.originalName = u.file.name
              /\ u.blob = << <<u.file.id, lo, hi>> >>
              /\ lo < hi /\ hi - lo <= CHUNK_SIZE
    /\ status[1] = "Successfully uploaded"
          => LET n    == status[2]
                 file == FileOfUrl(channel[Len(channel)].attachments[1].url)
             IN  /\ 1 <= n /\ n <= Len(channel)
                 /\ status = Success(file, n)
                 /\ \A p \in 1..n :
                       /\ MessageIndex(LastSent(n)[p]) = p - 1
                       /\ LastSent(n)[p].attachments[1].url[1] = file.id
                 /\ BlobConcat([p \in 1..n |->
                        cdn[LastSent(n)[p].attachments[1].url]]) = FileBlob(file)

\* the 21 chunks of the largest file that is accepted have all been uploaded
C12_Witness ==
    /\ status = <<"Successfully uploaded", 21, "a">>
    /\ Len(channel) = 21
    /\ cdn[<<"g6", 20>>] = << <<"g6", 20 * CHUNK_SIZE, MaxObjectSize>> >>

----------------------------------------------------------------------------
(* C13 *)

\* C13: at most one upload is in flight at any moment; while the upload of
\* chunk i is in flight, the chunks 0..i-1 of the same object are the last
\* i messages posted, in ascending order, and no later chunk has been
\* started.
C13_OneUploadAtATime ==
    /\ Cardinality(inflight) <= 1
    /\ sender.pc = "idle" => inflight = {}
    /\ sender.pc = "upload"
          => /\ \A u \in inflight : u.index = sender.i
             /\ inflight # {}
             /\ sender.i <= Len(channel)
             /\ \A p \in 1..sender.i :
                   /\ MessageIndex(LastSent(sender.i)[p]) = p - 1
                   /\ LastSent(sender.i)[p].attachments[1].url[1] = sender.file.id

\* the third chunk of a file is being uploaded, after the first two
C13_Witness ==
    /\ sender.pc = "upload" /\ sender.i = 2
    /\ Cardinality(inflight) = 1
    /\ \E u \in inflight : u.index = 2
    /\ Len(channel) = 2

----------------------------------------------------------------------------
(* C14 *)

\* C14: when the upload of chunk i is rejected, handleFileSplit ends in the
\* failed state in that step: nothing is posted, the rejected chunk is not
\* uploaded again, no later chunk is started, and the chunks 0..i-1 stay on
\* the channel.  The channel only ever grows, by the chunk being awaited.
C14_FailedUploadAborts ==
    /\ [][\A u \in inflight :
            UploadSettled(u, FALSE)
                => /\ channel' = channel /\ cdn' = cdn
                   /\ inflight' = {}
                   /\ sender' = Idle
                   /\ status' = Failure
                   /\ ~isUploading']_vars
    /\ [][channel' # channel
            => /\ sender.pc = "upload"
               /\ Len(channel') = Len(channel) + 1
               /\ SubSeq(channel', 1, Len(channel)) = channel
               /\ MessageIndex(channel'[Len(channel')]) = sender.i]_vars

\* the upload of the second chunk of a file was rejected: the first chunk is
\* on the channel, nothing is in flight, the component shows the error
C14_Witness ==
    /\ status = Failure
    /\ sender = Idle /\ ~isUploading
    /\ inflight = {}
    /\ Len(channel) = 1 /\ MessageIndex(channel[1]) = 0

----------------------------------------------------------------------------
(* C16 *)

\* C16: every chunk that is uploaded belongs to a file whose size N
\* satisfies CHUNK_SIZE < N <= MaxObjectSize and carries a total of at least
\* 2; selecting a file of any other size (0, at most CHUNK_SIZE, above
\* MaxObjectSize) starts no upload and posts nothing.
C16_SplitOnlyOversized ==
    /\ [](\A u \in Uploads :
             /\ CHUNK_SIZE < u.file.size /\ u.file.size <= MaxObjectSize
             /\ MetadataOf(u.content).total >= 2)
    /\ [][\A file \in SelectableFiles :
            (handleFileSelect(file)
                /\ ~(CHUNK_SIZE < file.size /\ file.size <= MaxObjectSize))
                => /\ UNCHANGED <<sender, isUploading, inflight, channel, cdn>>
                   /\ status' \in {Small, TooBig}]_vars

\* after the two chunks of one file were uploaded, a file above the limit
\* was selected and refused
C16_Witness ==
    /\ status = TooBig
    /\ sender = Idle /\ inflight = {}
    /\ Len(channel) = 2

----------------------------------------------------------------------------
(* C15 *)

\* C15: the delivery of a message that is not a well-formed chunk message
\* (no content, content that is not JSON, JSON that is null or not an
\* object, a wrong discriminator, a field missing or of the wrong type, no
\* attachment, an attachment without URL) changes neither the cache nor the
\* merges, and no error ever leaves onMessageCreate: no step of the handler
\* that stores a record or calls a merge is the delivery of such a message.
C15_MalformedIgnored ==
    /\ []~uncaught
    /\ [][DeliveryStep => \A message \in OtherMessages :
            onMessageCreate(message) => UNCHANGED <<storage, merges>>]_vars

\* the handler is subscribed and the entry of "a" lacks index 0, the index
\* every malformed message carries: each of them is delivered in this state
\* and leaves the entry as it is
C15_Witness ==
    /\ subscribed /\ now \in DeliverInstants /\ ~uncaught
    /\ "a" \in DOMAIN storage
    /\ IndexSet(storage["a"].chunks) = {1}
    /\ merges = <<>>

----------------------------------------------------------------------------
(* C17 *)

\* C17: no record whose index is not below its own total is ever stored.
C17_IndexBelowTotal ==
    \A key \in DOMAIN storage :
        \A p \in 1..Len(storage[key].chunks) :
            storage[key].chunks[p].index < storage[key].chunks[p].total

----------------------------------------------------------------------------
(* C18 *)

\* C18: a file is produced only from the records 0..n-1, each once: the
\* parts of every finished merge carry exactly the indices 0..n-1, n being
\* their number.
C18_MergeOnlyExactRange ==
    \A i \in 1..Len(merges) :
        merges[i].pc = "done"
            => {merges[i].parts[p][2] : p \in 1..Len(merges[i].parts)}
                   = 0..(Len(merges[i].parts) - 1)

----------------------------------------------------------------------------
(* C19 *)

\* C19: a merge concatenates the records that were stored when it was
\* called and no others: it never fetches more parts than the array held at
\* the call, whatever is delivered while it is suspended.
C19_MergeUsesSnapshot ==
    \A i \in 1..Len(merges) :
        /\ Len(merges[i].parts) <= merges[i].total
        /\ merges[i].idx <= merges[i].total

----------------------------------------------------------------------------
(* C20 *)

\* C20: the lastUpdated of an entry changes only in a step that adds a
\* record to it, and a step that adds a record or creates the entry sets it
\* to the receiver's clock, which is not the timestamp of any record: the
\* delivery of a duplicate leaves it as it was.
C20_LastUpdatedOnlyOnAccept ==
    [][\A key \in DOMAIN storage' :
          LET new == storage'[key]
          IN  IF key \in DOMAIN storage
              THEN LET old == storage[key]
                   IN  /\ new.lastUpdated # old.lastUpdated
                            => Len(new.chunks) = Len(old.chunks) + 1
                       /\ Len(new.chunks) # Len(old.chunks)
                            => /\ new.lastUpdated = now
                               /\ \A p \in 1..Len(new.chunks) :
                                     new.lastUpdated # new.chunks[p].timestamp
              ELSE /\ new.lastUpdated = now
                   /\ \A p \in 1..Len(new.chunks) :
                         new.lastUpdated # new.chunks[p].timestamp]_vars

\* the clock reads 1; the entry of "b" was last accepted at 0 and holds the
\* only part of f3 that is ever delivered, so every delivery to it in this
\* state is a duplicate; the entry of "a" accepted a record at 1
C20_Witness ==
    /\ subscribed /\ now = 1
    /\ "b" \in DOMAIN storage /\ storage["b"].lastUpdated = 0
    /\ "a" \in DOMAIN storage /\ storage["a"].lastUpdated = 1

----------------------------------------------------------------------------
(* C21 *)

\* this step is a step of a merge task: no call is made, a task moves
MergeTaskStep == Len(merges') = Len(merges) /\ merges' # merges

\* C21: when the fetch of the record a merge stands on fails, the merge ends
\* in that step: it holds no parts any more and has downloaded nothing; a
\* merge that has failed never moves again, so it fetches nothing further
\* and never downloads a file, whole or partial.
C21_FetchFailureStopsMerge ==
    /\ [](\A i \in 1..Len(merges) :
             merges[i].pc = "failed"
                 => merges[i].parts = <<>> /\ merges[i].name = "")
    /\ [][MergeTaskStep => \A i \in 1..Len(merges) :
            /\ FetchResolved(i, FALSE)
                  => /\ merges'[i].pc = "failed"
                     /\ merges'[i].parts = <<>>
                     /\ merges'[i].name = ""
            /\ merges[i].pc = "failed"
                  => /\ merges'[i].pc = "failed"
                     /\ merges'[i].idx = merges[i].idx
                     /\ merges'[i].cur = merges[i].cur]_vars

\* of two merges of the same three records the first has failed, holding
\* nothing, and the second has downloaded the file: the parts could be
\* fetched, and the failed merge delivered none of them
C21_Witness ==
    \E i, j \in 1..Len(merges) :
        /\ i < j /\ merges[i].key = merges[j].key
        /\ merges[i].pc = "failed" /\ merges[i].parts = <<>>
        /\ merges[i].total = 3
        /\ merges[j].pc = "done" /\ Len(merges[j].parts) = 3

----------------------------------------------------------------------------
(* C22 *)

\* the originalSize in the metadata of the first record a finished merge
\* has concatenated, chunks[0]
CarriedSize(m) ==
    LET message == CHOOSE msg \in ChunkMessages :
                       msg.attachments[1].url = m.parts[1]
    IN  RecordOf(message).originalSize

\* C22: a merge ends with the report of success, and no report of a size
\* mismatch, only when the bytes it has concatenated are as many as the
\* originalSize its records carry.
C22_SizeMismatchReported ==
    \A i \in 1..Len(merges) :
        merges[i].pc = "done"
            => BlobSize(Downloaded(merges[i])) = CarriedSize(merges[i])

----------------------------------------------------------------------------
(* C23 *)

\* this step leaves every entry but that of K as it is: none appears, none
\* disappears, none changes its records or its lastUpdated
OtherEntriesUnchanged(K) ==
    \A key \in (DOMAIN storage \cup DOMAIN storage') \ {K} :
        /\ key \in DOMAIN storage /\ key \in DOMAIN storage'
        /\ storage'[key] = storage[key]

\* C23: the delivery of a message that carries originalName K, accepted,
\* duplicate or rejected, with or without the call of a merge, and every
\* step of a merge of the entry of K, successful or failed, leave the
\* entries of all other keys unchanged.
C23_OtherKeysUntouched ==
    /\ [][DeliveryStep => \A message \in ChunkMessages :
            onMessageCreate(message)
                => OtherEntriesUnchanged(RecordOf(message).originalName)]_vars
    /\ [][DeliveryStep => \A message \in OtherMessages :
            onMessageCreate(message) => storage' = storage]_vars
    /\ [][MergeTaskStep => \A i \in 1..Len(merges) : \A ok \in BOOLEAN :
            FetchResolved(i, ok) => OtherEntriesUnchanged(merges[i].key)]_vars

\* the entry of "a" accepted a record at 1, was complete and a merge of it
\* has failed, while the entry of "b" still is what it was at 0
C23_Witness ==
    /\ now = 1
    /\ "b" \in DOMAIN storage
    /\ storage["b"].lastUpdated = 0 /\ Len(storage["b"].chunks) = 1
    /\ "a" \in DOMAIN storage /\ storage["a"].lastUpdated = 1
    /\ \E i \in 1..Len(merges) : merges[i].key = "a" /\ merges[i].pc = "failed"

----------------------------------------------------------------------------
(* C24 *)

\* C24: every upload being settled in the end, a send sequence that has
\* started ends.  While it runs isUploading is true; the step that ends it
\* sets isUploading to false and reports success exactly when it posted the
\* last of the totalChunks chunks, all earlier ones being posted, and the
\* error exactly when the upload it awaited was rejected; a step that does
\* not end it has posted a chunk that is not the last one.
C24_SendTerminates ==
    /\ (sender.pc = "upload") ~> (sender.pc = "idle" /\ ~isUploading)
    /\ [](sender.pc = "upload" <=> isUploading)
    /\ [][sender.pc = "upload" /\ sender'.pc = "idle"
            => /\ ~isUploading' /\ inflight' = {}
               /\ status' \in {Success(sender.file, sender.totalChunks), Failure}
               /\ status' = Success(sender.file, sender.totalChunks)
                     <=> /\ channel' # channel
                         /\ sender.i = sender.totalChunks - 1
                         /\ Len(channel') >= sender.totalChunks
                         /\ \A p \in 1..sender.totalChunks :
                               LET message == channel'[Len(channel') - sender.totalChunks + p]
                               IN  /\ MessageIndex(message) = p - 1
                                   /\ message.attachments[1].url[1] = sender.file.id
               /\ status' = Failure <=> channel' = channel]_vars
    /\ [][sender.pc = "upload" /\ sender'.pc = "upload" /\ sender' # sender
            => /\ channel' # channel
               /\ sender'.i = sender.i + 1
               /\ sender'.i < sender.totalChunks
               /\ sender'.file = sender.file]_vars

\* a sequence that failed after its first chunk, then a sequence of two
\* chunks that was completed: both have ended, the button is enabled again
C24_Witness ==
    /\ sender = Idle /\ ~isUploading /\ inflight = {}
    /\ Len(status) = 3 /\ status[2] = 2
    /\ Len(channel) = 3
    /\ MessageIndex(channel[1]) = 0
    /\ MessageIndex(channel[2]) = 0
    /\ MessageIndex(channel[3]) = 1

====
